---- MODULE Spec2Model ----
(***************************************************************************)
(* LingoBlanks (src/index.tsx): the App component as a state machine.      *)
(*                                                                         *)
(* State is the component's useState/useRef cells.  Every action is one    *)
(* synchronous run of a handler or of the continuation of an async         *)
(* function after an await, followed by the re-render and the effects it   *)
(* triggers (the cooldown effect of lines 126-131).                        *)
(*                                                                         *)
(* Text is a sequence of one-character strings, so that trim(),            *)
(* toLowerCase() and the placeholder regex are computed, not assumed.      *)
(* A nullable cell (lesson, lessonImage, error) is the empty sequence      *)
(* for null and a one-element or longer sequence otherwise.                *)
(***************************************************************************)
EXTENDS Integers, Sequences, FiniteSets, TLC

VARIABLES
    topic,              \* useState topic (line 83)
    isLoading,          \* line 89
    error,              \* line 90: <<>> is null, else the message parts
    lesson,             \* line 91: <<>> is null, else <<Lesson record>>
    lessonImage,        \* line 92: <<>> is null, else <<title the image was requested for>>
    userAnswers,        \* line 94
    isCorrect,          \* line 95
    showResults,        \* line 96 (the spec's "revealed")
    shuffledWords,      \* line 98 (the spec's "wordBank")
    isAudioLoading,     \* line 100
    isAudioPlaying,     \* line 101
    nextTopicCooldown,  \* line 103
    audioSourceRef,     \* line 107: 0 is null, else the id of a buffer source
    cooldownTimer,      \* the pending setTimeout of line 128: the value it captured, 0 if none
    calls,              \* the generateLesson invocations: position and captured lessonData
    listenPc,           \* position of the handleListen invocation in flight
    playing,            \* buffer sources started and not yet ended
    stopped,            \* buffer sources stopped whose ended event is still to be dispatched
    lastOp,             \* history: the operation that produced this state
    ticks,              \* history: cooldown ticks since the last generateLesson finished
    pure                \* the utility function under evaluation (pcmToWav, shuffleArray,
                        \* renderArticle) with its arguments and result; <<>> in the component

appVars == <<topic, isLoading, error, lesson, lessonImage, userAnswers, isCorrect,
             showResults, shuffledWords, isAudioLoading, isAudioPlaying,
             nextTopicCooldown, audioSourceRef, cooldownTimer, calls, listenPc,
             playing, stopped, lastOp, ticks>>

vars == <<appVars, pure>>

\* ------------------------------------------------------------------ bounds

\* generateLesson invocations in one behaviour of Spec
MaxCalls == 2

\* generateLesson invocations in one behaviour of SpecGenerate
MaxOverlap == 3

\* buffer source ids
MaxSources == 2

\* length of the enumerated PCM inputs of SpecWav
MaxPcmLen == 2

\* length of the arrays shuffled in SpecShuffle
MaxShuffleLen == 3

\* segments an article of SpecRender is put together from
MaxSegments == 3

\* ------------------------------------------------------- program constants

\* setNextTopicCooldown(5), line 216
CooldownStart == 5

\* ------------------------------------------------------------------- text

Max(a, b) == IF a >= b THEN a ELSE b

UpperCase == <<"A", "B", "C", "D", "E", "F", "G", "H", "I", "J", "K", "L", "M",
               "N", "O", "P", "Q", "R", "S", "T", "U", "V", "W", "X", "Y", "Z">>
LowerCase == <<"a", "b", "c", "d", "e", "f", "g", "h", "i", "j", "k", "l", "m",
               "n", "o", "p", "q", "r", "s", "t", "u", "v", "w", "x", "y", "z">>

\* the characters String.prototype.trim removes (those the model's texts use)
WhiteSpace == {" ", "\t", "\n"}

toLowerCaseChar(c) ==
    IF \E i \in 1..Len(UpperCase) : UpperCase[i] = c
    THEN LowerCase[CHOOSE i \in 1..Len(UpperCase) : UpperCase[i] = c]
    ELSE c

\* String.prototype.toLowerCase
toLowerCase(s) == [i \in 1..Len(s) |-> toLowerCaseChar(s[i])]

\* String.prototype.trim: drop the leading and the trailing white space
trim(s) ==
    LET keep == {i \in 1..Len(s) : s[i] \notin WhiteSpace}
    IN  IF keep = {} THEN <<>>
        ELSE LET lo == CHOOSE i \in keep : \A j \in keep : i <= j
                 hi == CHOOSE i \in keep : \A j \in keep : i >= j
             IN  SubSeq(s, lo, hi)

\* ---------------------------------------------------------- placeholders

\* Index of the last character of a match of /\{\{[^}]+\}\}/ that starts at
\* p, or 0 if there is none: "{{", one or more characters other than "}",
\* then "}}".  The second alternative of the regex of line 308,
\* \{\{word\}\}, matches nothing the first does not.
MatchEnd(s, p) ==
    IF p + 1 > Len(s) \/ s[p] # "{" \/ s[p + 1] # "{" THEN 0
    ELSE LET closers == {q \in (p + 2)..Len(s) : s[q] = "}"}
         IN  IF closers = {} THEN 0
             ELSE LET q == CHOOSE x \in closers : \A y \in closers : x <= y
                  IN  IF q > p + 2 /\ q + 1 <= Len(s) /\ s[q + 1] = "}"
                      THEN q + 1 ELSE 0

\* The parts of article.split(/(\{\{[^}]+\}\}|\{\{word\}\})/g), scanning
\* from position p with the text part begun at position from.
RECURSIVE SplitFrom(_, _, _)
SplitFrom(s, from, p) ==
    IF p > Len(s) THEN <<SubSeq(s, from, Len(s))>>
    ELSE LET e == MatchEnd(s, p)
         IN  IF e = 0 THEN SplitFrom(s, from, p + 1)
             ELSE <<SubSeq(s, from, p - 1), SubSeq(s, p, e)>>
                  \o SplitFrom(s, e + 1, e + 1)

SplitArticle(article) == SplitFrom(article, 1, 1)

\* part.startsWith('{{') && part.endsWith('}}'), line 314
IsPlaceholderPart(part) ==
    /\ Len(part) >= 2
    /\ part[1] = "{" /\ part[2] = "{"
    /\ part[Len(part)] = "}" /\ part[Len(part) - 1] = "}"

\* the number of inputs renderArticle creates: the final value of inputIndex
NumInputs(article) ==
    LET parts == SplitArticle(article)
    IN  Cardinality({i \in 1..Len(parts) : IsPlaceholderPart(parts[i])})

\* lines 313-331: what parts.map returns, one element per part: an input
\* bound to currentIndex (the number of inputs returned before it), the
\* text of the part, or null for an empty part
RenderArticle(article) ==
    LET parts == SplitArticle(article)
    IN  [i \in 1..Len(parts) |->
            IF IsPlaceholderPart(parts[i])
            THEN [kind |-> "input", part |-> parts[i],
                  currentIndex |->
                      Cardinality({k \in 1..(i - 1) : IsPlaceholderPart(parts[k])})]
            ELSE IF parts[i] # <<>>
                 THEN [kind |-> "text", part |-> parts[i], currentIndex |-> -1]
                 ELSE [kind |-> "null", part |-> parts[i], currentIndex |-> -1]]

\* the number of placeholder markers of an article
NumPlaceholders(article) ==
    LET parts == SplitArticle(article)
    IN  Cardinality({i \in 1..Len(parts) : i % 2 = 0})

\* ------------------------------------------------------------------ arrays

\* an empty slot of a JavaScript array, and the value undefined
HOLE == <<"<empty slot>">>
UNDEFINED == <<"undefined">>

\* new Array(n).fill(''), line 191
FilledArray(n) == [i \in 1..n |-> <<>>]

\* [...array], lines 69 and 283: iteration reads an empty slot as undefined
ArraySpread(a) == [i \in 1..Len(a) |-> IF a[i] = HOLE THEN UNDEFINED ELSE a[i]]

\* array[index] = value with a 0-based index: writing past the end leaves
\* empty slots between the old end and the index
ArraySet(a, index, value) ==
    [i \in 1..Max(Len(a), index + 1) |->
        IF i = index + 1 THEN value
        ELSE IF i <= Len(a) THEN a[i] ELSE HOLE]

\* array[index] with a 0-based index: undefined past the end and for an empty slot
ArrayGet(a, index) ==
    IF index + 1 > Len(a) \/ a[index + 1] = HOLE THEN UNDEFINED ELSE a[index + 1]

\* ---------------------------------------------------------------- pcmToWav

\* A DataView or Uint8Array is the sequence of its bytes; byte offset k is
\* position k + 1.

RECURSIVE SeqsUpTo(_, _)
SeqsUpTo(S, n) ==
    IF n = 0 THEN {<<>>}
    ELSE LET shorter == SeqsUpTo(S, n - 1)
         IN  shorter \cup {Append(q, x) : q \in shorter, x \in S}

\* new ArrayBuffer(n): n zero bytes
ArrayBuffer(n) == [i \in 1..n |-> 0]

\* Uint8Array.prototype.set(bytes, byteOffset)
SetBytes(view, byteOffset, bytes) ==
    [i \in 1..Len(view) |->
        IF i > byteOffset /\ i <= byteOffset + Len(bytes)
        THEN bytes[i - byteOffset] ELSE view[i]]

\* String.prototype.charCodeAt for the characters of the four chunk ids
CharCodeAt ==
    [c \in {"R", "I", "F", "W", "A", "V", "E", "f", "m", "t", " ", "d", "a"} |->
        CASE c = "R" -> 82 [] c = "I" -> 73 [] c = "F" -> 70 [] c = "W" -> 87
          [] c = "A" -> 65 [] c = "V" -> 86 [] c = "E" -> 69 [] c = "f" -> 102
          [] c = "m" -> 109 [] c = "t" -> 116 [] c = " " -> 32 [] c = "d" -> 100
          [] c = "a" -> 97]

\* lines 59-63: one setUint8 per character
writeString(view, byteOffset, string) ==
    SetBytes(view, byteOffset, [i \in 1..Len(string) |-> CharCodeAt[string[i]]])

\* the integer a DataView setter stores for a non-negative Number given in
\* eighths: the fraction is dropped
ToInteger(eighths) == eighths \div 8

\* the low four bytes of a non-negative integer, least significant first:
\* the value modulo 2^32
Uint32Bytes(value) ==
    <<value % 256, (value \div 256) % 256, (value \div 65536) % 256,
      (value \div 16777216) % 256>>

\* the low two bytes, least significant first: the value modulo 2^16
Uint16Bytes(value) == <<value % 256, (value \div 256) % 256>>

Reversed(bytes) == [i \in 1..Len(bytes) |-> bytes[Len(bytes) + 1 - i]]

\* faulty variant: the littleEndian argument is ignored
setUint32_bigEndian(view, byteOffset, value, littleEndian) ==
    SetBytes(view, byteOffset, Reversed(Uint32Bytes(value)))

\* DataView.prototype.setUint32(byteOffset, value, littleEndian)
setUint32(view, byteOffset, value, littleEndian) ==
    SetBytes(view, byteOffset,
             IF littleEndian THEN Uint32Bytes(value) ELSE Reversed(Uint32Bytes(value)))

\* DataView.prototype.setUint16(byteOffset, value, littleEndian)
setUint16(view, byteOffset, value, littleEndian) ==
    SetBytes(view, byteOffset,
             IF littleEndian THEN Uint16Bytes(value) ELSE Reversed(Uint16Bytes(value)))

\* lines 27-57: the bytes of the returned buffer.  blockAlign and byteRate
\* are Numbers that need not be whole (12 bits, 1 channel); they are kept
\* in eighths until a setter stores them.
pcmToWav(pcmData, sampleRate, numChannels, bitsPerSample) ==
    LET dataSize == Len(pcmData)
        blockAlignEighths == numChannels * bitsPerSample
        byteRateEighths == sampleRate * blockAlignEighths
        v0 == ArrayBuffer(44)
        v1 == writeString(v0, 0, <<"R", "I", "F", "F">>)
        v2 == setUint32(v1, 4, 36 + dataSize, TRUE)
        v3 == writeString(v2, 8, <<"W", "A", "V", "E">>)
        v4 == writeString(v3, 12, <<"f", "m", "t", " ">>)
        v5 == setUint32(v4, 16, 16, TRUE)
        v6 == setUint16(v5, 20, 1, TRUE)
        v7 == setUint16(v6, 22, numChannels, TRUE)
        v8 == setUint32(v7, 24, sampleRate, TRUE)
        v9 == setUint32(v8, 28, ToInteger(byteRateEighths), TRUE)
        v10 == setUint16(v9, 32, ToInteger(blockAlignEighths), TRUE)
        v11 == setUint16(v10, 34, bitsPerSample, TRUE)
        v12 == writeString(v11, 36, <<"d", "a", "t", "a">>)
        header == setUint32(v12, 40, dataSize, TRUE)
        wavBytes == SetBytes(SetBytes(ArrayBuffer(44 + Len(pcmData)), 0, header),
                             44, pcmData)
    IN  wavBytes

\* PCM inputs: every byte sequence of up to MaxPcmLen bytes over a few byte
\* values, and one input longer than 255 bytes
PcmBytes == {0, 1, 255}

PcmInputs ==
    SeqsUpTo(PcmBytes, MaxPcmLen)
        \cup {[i \in 1..(256 + MaxPcmLen) |-> (i - 1) % 256]}

\* the arguments of line 251 and other formats
SampleRates == {24000, 44100}

ChannelCounts == {1, 2}

SampleSizes == {8, 12, 16}

\* ----------------------------------------------------------------- shuffle

\* faulty variant: the second assignment of the swap is lost
Swap_copies(a, i, j) == [a EXCEPT ![i] = a[j]]

\* line 72: [shuffled[i], shuffled[j]] = [shuffled[j], shuffled[i]]
Swap(a, i, j) == [a EXCEPT ![i] = a[j], ![j] = a[i]]

\* Every array the loop of lines 70-73 can leave in `shuffled` when it is
\* about to run with 1-based position i (i = index + 1), over every value
\* of Math.floor(Math.random() * (i + 1)).
RECURSIVE ShuffleFrom(_, _)
ShuffleFrom(shuffled, i) ==
    IF i <= 1 THEN {shuffled}
    ELSE UNION {ShuffleFrom(Swap(shuffled, i, j), i - 1) : j \in 1..i}

\* faulty variant: the loop starts one position early, at length - 2
shuffleArray_skipsLast(array) ==
    ShuffleFrom(ArraySpread(array), Max(Len(array) - 1, 0))

\* shuffleArray(array): the set of its possible results
shuffleArray(array) == ShuffleFrom(ArraySpread(array), Len(array))

\* ------------------------------------------------------ service responses

\* JSON.parse(response.text) of line 184: the objects the content service
\* is taken to answer with.  hasTargetWords = FALSE is a response without
\* the targetWords field.
LessonWellFormed ==
    [title |-> "T1", languageCode |-> "es-ES",
     article |-> <<"{", "{", "w", "}", "}", " ", "y", " ", "{", "{", "e", "l", "}", "}">>,
     hasTargetWords |-> TRUE,
     targetWords |-> << <<" ", "P", "a">>, <<"s", "i">> >>,
     nextTopicSuggestion |-> "t1"]

LessonMorePlaceholders ==
    [title |-> "T2", languageCode |-> "es-ES",
     article |-> <<"{", "{", "a", "}", "}", "{", "{", "b", "}", "}", "{", "{", "c", "}", "}">>,
     hasTargetWords |-> TRUE,
     targetWords |-> << <<" ", "P", "a">> >>,
     nextTopicSuggestion |-> ""]

LessonEmptyWords ==
    [title |-> "T4", languageCode |-> "es-ES",
     article |-> <<"y", " ", "{", "{", "w", "}", "}">>,
     hasTargetWords |-> TRUE,
     targetWords |-> <<>>,
     nextTopicSuggestion |-> "t1"]

LessonNoWords ==
    [title |-> "T5", languageCode |-> "es-ES",
     article |-> <<"y", " ", "{", "{", "w", "}", "}">>,
     hasTargetWords |-> FALSE,
     targetWords |-> <<>>,
     nextTopicSuggestion |-> "t1"]

Responses == {LessonWellFormed, LessonMorePlaceholders, LessonEmptyWords,
              LessonNoWords}

\* what the user types into a blank
Typed == {<<"p", "A", " ">>}

\* the 0-based indexes renderArticle can bind an input to
Blanks == UNION {0..(NumInputs(r.article) - 1) : r \in Responses}

InitialTopic == "ordering food at a restaurant"

\* ----------------------------------------------------------------- errors

NoError == <<>>

\* faulty variant: the message ends after the detail
GenerateError_noSuffix(message) == <<"An error occurred: ", message>>

\* `An error occurred: ${err.message}. Please try again.`, line 213
GenerateError(message) == <<"An error occurred: ", message, ". Please try again.">>

\* `Failed to play audio: ${err.message}`, line 274
AudioError(message) == <<"Failed to play audio: ", message>>

InvalidLessonMessage == "API returned invalid lesson data (missing target words)."
ContentFailedMessage == "content request failed"
ImageFailedMessage == "image request failed"
NoAudioMessage == "No audio data returned from API."
SpeechFailedMessage == "speech request failed"
DecodeFailedMessage == "Unable to decode audio data"

\* ------------------------------------------------------------------- calls

NoLesson == <<>>
NoImage == <<>>

Calls == 1..Max(MaxCalls, MaxOverlap)

\* a generateLesson invocation: "none" (not started), "content" (awaiting
\* generateContent, line 166), "image" (awaiting generateImages, line 197),
\* "done" (the finally block has run)
NotStarted == [pc |-> "none", lessonData |-> NoLesson]

Done == [pc |-> "done", lessonData |-> NoLesson]

InFlight(c) == calls[c].pc \in {"content", "image"}

Started(c) == calls[c].pc # "none"

NextCall == Cardinality({c \in Calls : Started(c)}) + 1

NoEvaluation == <<>>

\* the component after its first render
InitApp ==
    /\ topic = InitialTopic
    /\ isLoading = FALSE
    /\ error = NoError
    /\ lesson = NoLesson
    /\ lessonImage = NoImage
    /\ userAnswers = <<>>
    /\ isCorrect = <<>>
    /\ showResults = FALSE
    /\ shuffledWords = <<>>
    /\ isAudioLoading = FALSE
    /\ isAudioPlaying = FALSE
    /\ nextTopicCooldown = 0
    /\ audioSourceRef = 0
    /\ cooldownTimer = 0
    /\ calls = [c \in Calls |-> NotStarted]
    /\ listenPc = "idle"
    /\ playing = {}
    /\ stopped = {}
    /\ lastOp = "init"
    /\ ticks = 0

Init ==
    /\ InitApp
    /\ pure = NoEvaluation

\* ------------------------------------------------------------ the cooldown

\* line 131: the effect depends on [nextTopicCooldown]; after a render its
\* cleanup and its body run only if the value differs from the one of the
\* previous render
EffectReruns(old, new) == new # old

\* faulty variant: the effect tests nextTopicCooldown > 1
CooldownEffect_stopsAtOne(old, new, pending) ==
    IF ~EffectReruns(old, new) THEN pending
    ELSE IF new > 1 THEN new ELSE 0

\* The effect of lines 126-131 after a render in which nextTopicCooldown
\* went from old to new, with `pending` the timer still scheduled: the
\* effect depends on [nextTopicCooldown], so an unchanged value neither
\* cleans up nor reschedules; a changed one clears the timer and schedules
\* a new one if the value is positive.
CooldownEffect(old, new, pending) ==
    IF ~EffectReruns(old, new) THEN pending
    ELSE IF new > 0 THEN new ELSE 0

\* the timer of line 128 fires: setNextTopicCooldown(nextTopicCooldown - 1)
\* with the value its closure captured
Tick ==
    /\ cooldownTimer > 0
    /\ nextTopicCooldown' = cooldownTimer - 1
    /\ cooldownTimer' = CooldownEffect(nextTopicCooldown, cooldownTimer - 1, 0)
    /\ ticks' = ticks + 1
    /\ lastOp' = "tick"
    /\ UNCHANGED <<topic, isLoading, error, lesson, lessonImage, userAnswers,
                   isCorrect, showResults, shuffledWords, isAudioLoading,
                   isAudioPlaying, audioSourceRef, calls, listenPc, playing, stopped,
                   pure>>

\* ---------------------------------------------------------- generateLesson

UNCHANGED_audio == UNCHANGED <<isAudioLoading, isAudioPlaying, audioSourceRef,
                               listenPc, playing, stopped, pure>>

\* faulty variant: setLessonImage(null) of line 159 is missing
generateLessonStart_keepsImage(c, currentTopic) ==
    /\ isLoading' = TRUE
    /\ error' = NoError
    /\ lesson' = NoLesson
    /\ showResults' = FALSE
    /\ calls' = [calls EXCEPT ![c] = [pc |-> "content", lessonData |-> NoLesson]]
    /\ UNCHANGED <<lessonImage, userAnswers, isCorrect, shuffledWords,
                   nextTopicCooldown, cooldownTimer, ticks>>
    /\ UNCHANGED_audio

\* lines 156-166: the synchronous start of generateLesson(currentTopic), up
\* to the await of the content request
generateLessonStart(c, currentTopic) ==
    /\ isLoading' = TRUE
    /\ error' = NoError
    /\ lesson' = NoLesson
    /\ lessonImage' = NoImage
    /\ showResults' = FALSE
    /\ calls' = [calls EXCEPT ![c] = [pc |-> "content", lessonData |-> NoLesson]]
    /\ UNCHANGED <<userAnswers, isCorrect, shuffledWords, nextTopicCooldown,
                   cooldownTimer, ticks>>
    /\ UNCHANGED_audio

\* lines 214-217: the finally block, and the cooldown effect of the render
\* it causes
generateLessonFinally ==
    /\ isLoading' = FALSE
    /\ nextTopicCooldown' = CooldownStart
    /\ cooldownTimer' = CooldownEffect(nextTopicCooldown, CooldownStart, cooldownTimer)
    /\ ticks' = 0

\* faulty variant: a catch block that also resets the lesson state
generateLessonCatch_resets(message) ==
    /\ error' = GenerateError(message)
    /\ lesson' = NoLesson
    /\ userAnswers' = <<>>
    /\ isCorrect' = <<>>
    /\ shuffledWords' = <<>>
    /\ UNCHANGED <<lessonImage, showResults>>

\* lines 211-213: the catch block sets the error and nothing else
generateLessonCatch(message) ==
    /\ error' = GenerateError(message)
    /\ UNCHANGED <<lesson, lessonImage, userAnswers, isCorrect, showResults,
                   shuffledWords>>

\* faulty variant: the check of line 186 without the length test
IsInvalidLessonData_absentOnly(lessonData) ==
    ~lessonData.hasTargetWords

\* line 186: !lessonData.targetWords || lessonData.targetWords.length === 0
IsInvalidLessonData(lessonData) ==
    \/ ~lessonData.hasTargetWords
    \/ Len(lessonData.targetWords) = 0

\* the 'Start Lesson' button, lines 409-411: disabled={isLoading || !language || !topic}
StartLessonWithin(maxCalls) ==
    /\ ~isLoading
    /\ topic # ""
    /\ NextCall <= maxCalls
    /\ generateLessonStart(NextCall, topic)
    /\ lastOp' = "start"
    /\ UNCHANGED topic

\* lines 184-197: the content response parses to lessonData and passes the
\* check of line 186; the lesson is installed and the image requested
ContentOk(c, lessonData) ==
    /\ calls[c].pc = "content"
    /\ ~IsInvalidLessonData(lessonData)
    /\ lesson' = <<lessonData>>
    /\ userAnswers' = FilledArray(Len(lessonData.targetWords))
    /\ isCorrect' = <<>>
    /\ shuffledWords' \in shuffleArray(lessonData.targetWords)
    /\ calls' = [calls EXCEPT ![c].pc = "image", ![c].lessonData = <<lessonData>>]
    /\ lastOp' = "contentOk"
    /\ UNCHANGED <<topic, isLoading, error, lessonImage, showResults,
                   nextTopicCooldown, cooldownTimer, ticks>>
    /\ UNCHANGED_audio

\* lines 184-188, 211-217: the content response fails the check of line 186
ContentInvalid(c, lessonData) ==
    /\ calls[c].pc = "content"
    /\ IsInvalidLessonData(lessonData)
    /\ generateLessonCatch(InvalidLessonMessage)
    /\ generateLessonFinally
    /\ calls' = [calls EXCEPT ![c] = Done]
    /\ lastOp' = "contentInvalid"
    /\ UNCHANGED topic
    /\ UNCHANGED_audio

\* lines 166-184, 211-217: the content request rejects, or JSON.parse throws
ContentFail(c) ==
    /\ calls[c].pc = "content"
    /\ generateLessonCatch(ContentFailedMessage)
    /\ generateLessonFinally
    /\ calls' = [calls EXCEPT ![c] = Done]
    /\ lastOp' = "contentFail"
    /\ UNCHANGED topic
    /\ UNCHANGED_audio

\* lines 207-209, 214-217: the image response arrives
ImageOk(c) ==
    /\ calls[c].pc = "image"
    /\ lessonImage' = <<calls[c].lessonData[1].title>>
    /\ generateLessonFinally
    /\ calls' = [calls EXCEPT ![c] = Done]
    /\ lastOp' = "imageOk"
    /\ UNCHANGED <<topic, error, lesson, userAnswers, isCorrect, showResults,
                   shuffledWords>>
    /\ UNCHANGED_audio

\* lines 197-207, 211-217: the image request rejects, or the response holds
\* no image
ImageFail(c) ==
    /\ calls[c].pc = "image"
    /\ generateLessonCatch(ImageFailedMessage)
    /\ generateLessonFinally
    /\ calls' = [calls EXCEPT ![c] = Done]
    /\ lastOp' = "imageFail"
    /\ UNCHANGED topic
    /\ UNCHANGED_audio

\* ---------------------------------------------------------------- exercise

UNCHANGED_generation == UNCHANGED <<topic, isLoading, lesson, lessonImage,
                                    shuffledWords, nextTopicCooldown,
                                    cooldownTimer, calls, ticks, pure>>

\* faulty variant: handleAnswerChange writing the slot after `index`
handleAnswerChange_offByOne(index, value) ==
    IF showResults THEN userAnswers
    ELSE ArraySet(ArraySpread(userAnswers), index + 1, value)

\* faulty variant: handleAnswerChange without the showResults test
handleAnswerChange_unguarded(index, value) ==
    ArraySet(ArraySpread(userAnswers), index, value)

\* lines 281-286: the next value of userAnswers
handleAnswerChange(index, value) ==
    IF showResults THEN userAnswers
    ELSE ArraySet(ArraySpread(userAnswers), index, value)

\* onChange of the input renderArticle binds to `index` (lines 313-327)
SetAnswer(index, value) ==
    /\ lesson # NoLesson
    /\ index \in 0..(NumInputs(lesson[1].article) - 1)
    /\ userAnswers' = handleAnswerChange(index, value)
    /\ lastOp' = "setAnswer"
    /\ UNCHANGED <<error, isCorrect, showResults>>
    /\ UNCHANGED_generation
    /\ UNCHANGED_audio

\* answer.trim().toLowerCase() === lesson.targetWords[index].trim().toLowerCase()
AnswerMatches(answer, targetWord) ==
    toLowerCase(trim(answer)) = toLowerCase(trim(targetWord))

\* lines 290-292 throw a TypeError: map() skips the empty slots and calls
\* the callback on every other element; trim() of undefined throws, for an
\* undefined answer and for targetWords[index] past the end of targetWords
CheckThrows(answers, targetWords) ==
    \E i \in 1..Len(answers) :
        /\ answers[i] # HOLE
        /\ \/ answers[i] = UNDEFINED
           \/ i > Len(targetWords)

\* lines 290-292: the array map() returns when the callback does not throw
CheckResults(answers, targetWords) ==
    [i \in 1..Len(answers) |->
        IF answers[i] = HOLE THEN HOLE
        ELSE AnswerMatches(answers[i], targetWords[i])]

\* the 'Check Answers' button (line 454, rendered while !showResults) and
\* handleCheckAnswers, lines 288-295
Check ==
    /\ lesson # NoLesson
    /\ ~showResults
    /\ IF CheckThrows(userAnswers, lesson[1].targetWords)
       THEN /\ lastOp' = "checkThrew"
            /\ UNCHANGED <<isCorrect, showResults>>
       ELSE /\ isCorrect' = CheckResults(userAnswers, lesson[1].targetWords)
            /\ showResults' = TRUE
            /\ lastOp' = "check"
    /\ UNCHANGED <<error, userAnswers>>
    /\ UNCHANGED_generation
    /\ UNCHANGED_audio

\* faulty variant: handleNextTopic without the cooldown test
NextTopicAccepted_noCooldown ==
    /\ lesson # NoLesson
    /\ lesson[1].nextTopicSuggestion # ""

\* line 298: lesson?.nextTopicSuggestion && nextTopicCooldown === 0
NextTopicAccepted ==
    /\ lesson # NoLesson
    /\ lesson[1].nextTopicSuggestion # ""
    /\ nextTopicCooldown = 0

\* the 'Next Topic' button (lines 456-459, rendered while showResults) and
\* handleNextTopic, lines 297-302
NextTopicWithin(maxCalls) ==
    /\ lesson # NoLesson
    /\ showResults
    /\ IF NextTopicAccepted
       THEN /\ NextCall <= maxCalls
            /\ topic' = lesson[1].nextTopicSuggestion
            /\ generateLessonStart(NextCall, lesson[1].nextTopicSuggestion)
            /\ lastOp' = "nextTopic"
       ELSE /\ lastOp' = "nextTopicRejected"
            /\ UNCHANGED <<error, userAnswers, isCorrect, showResults>>
            /\ UNCHANGED_generation
            /\ UNCHANGED_audio

\* ------------------------------------------------------------ handleListen

UNCHANGED_exercise == UNCHANGED <<userAnswers, isCorrect, showResults>>

FreeSources == (1..MaxSources) \ (playing \cup stopped)

\* faulty variant: a listen is accepted while a source is playing
ListenRejected_ignoresPlaying == isAudioLoading \/ lesson = NoLesson

\* faulty variant: a listen is accepted while another one is pending
ListenRejected_ignoresLoading == isAudioPlaying \/ lesson = NoLesson

\* line 221: isAudioLoading || isAudioPlaying || !lesson
ListenRejected == isAudioLoading \/ isAudioPlaying \/ lesson = NoLesson

\* a 'Listen to Article' or word-bank button (lines 429, 444) and
\* handleListen up to the await of line 231
Listen ==
    /\ lesson # NoLesson
    /\ IF ListenRejected
       THEN /\ lastOp' = "listenRejected"
            /\ UNCHANGED <<error, isAudioLoading, listenPc, playing, stopped>>
       ELSE /\ isAudioLoading' = TRUE
            /\ error' = NoError
            /\ IF audioSourceRef # 0 /\ audioSourceRef \in playing
               THEN /\ playing' = playing \ {audioSourceRef}
                    /\ stopped' = stopped \cup {audioSourceRef}
               ELSE UNCHANGED <<playing, stopped>>
            /\ listenPc' = "speech"
            /\ lastOp' = "listen"
    /\ UNCHANGED <<isAudioPlaying, audioSourceRef>>
    /\ UNCHANGED_exercise
    /\ UNCHANGED_generation

\* faulty variant: the finally block of line 276 is missing
handleListenCatch_keepsLoading(message) ==
    /\ error' = AudioError(message)
    /\ listenPc' = "idle"
    /\ UNCHANGED <<isAudioLoading, isAudioPlaying, audioSourceRef, playing, stopped>>

\* lines 272-277: the catch and the finally block of handleListen
handleListenCatch(message) ==
    /\ error' = AudioError(message)
    /\ isAudioLoading' = FALSE
    /\ listenPc' = "idle"
    /\ UNCHANGED <<isAudioPlaying, audioSourceRef, playing, stopped>>

\* lines 245-258: the speech response carries audio data; the WAV buffer
\* is handed to decodeAudioData
SpeechOk ==
    /\ listenPc = "speech"
    /\ listenPc' = "decode"
    /\ lastOp' = "speechOk"
    /\ UNCHANGED <<error, isAudioLoading, isAudioPlaying, audioSourceRef,
                   playing, stopped>>
    /\ UNCHANGED_exercise
    /\ UNCHANGED_generation

\* lines 245-248: the speech response carries no audio data
SpeechNoPayload ==
    /\ listenPc = "speech"
    /\ handleListenCatch(NoAudioMessage)
    /\ lastOp' = "speechNoPayload"
    /\ UNCHANGED_exercise
    /\ UNCHANGED_generation

\* line 231: the speech request rejects
SpeechFail ==
    /\ listenPc = "speech"
    /\ handleListenCatch(SpeechFailedMessage)
    /\ lastOp' = "speechFail"
    /\ UNCHANGED_exercise
    /\ UNCHANGED_generation

\* lines 258-270, 276: the buffer is decoded, a source is started and recorded
DecodeOk ==
    /\ listenPc = "decode"
    /\ FreeSources # {}
    /\ LET source == CHOOSE s \in FreeSources : \A t \in FreeSources : s <= t
       IN  /\ playing' = playing \cup {source}
           /\ audioSourceRef' = source
    /\ isAudioPlaying' = TRUE
    /\ isAudioLoading' = FALSE
    /\ listenPc' = "idle"
    /\ lastOp' = "decodeOk"
    /\ UNCHANGED <<error, stopped>>
    /\ UNCHANGED_exercise
    /\ UNCHANGED_generation

\* line 258: decodeAudioData rejects
DecodeFail ==
    /\ listenPc = "decode"
    /\ handleListenCatch(DecodeFailedMessage)
    /\ lastOp' = "decodeFail"
    /\ UNCHANGED_exercise
    /\ UNCHANGED_generation

\* lines 267-270: the ended event of a source, at the end of its buffer or
\* after stop()
PlaybackEnded(source) ==
    /\ source \in playing \cup stopped
    /\ playing' = playing \ {source}
    /\ stopped' = stopped \ {source}
    /\ isAudioPlaying' = FALSE
    /\ audioSourceRef' = 0
    /\ lastOp' = "ended"
    /\ UNCHANGED <<error, isAudioLoading, listenPc>>
    /\ UNCHANGED_exercise
    /\ UNCHANGED_generation

\* ------------------------------------------------------------ specification

StartLesson == StartLessonWithin(MaxCalls)

NextTopic == NextTopicWithin(MaxCalls)

\* The whole component, with at most MaxCalls generateLesson invocations.
Next ==
    \/ StartLesson
    \/ \E c \in Calls, lessonData \in Responses : ContentOk(c, lessonData)
    \/ \E c \in Calls, lessonData \in Responses : ContentInvalid(c, lessonData)
    \/ \E c \in Calls : ContentFail(c)
    \/ \E c \in Calls : ImageOk(c)
    \/ \E c \in Calls : ImageFail(c)
    \/ Tick
    \/ \E index \in Blanks, value \in Typed : SetAnswer(index, value)
    \/ Check
    \/ NextTopic
    \/ Listen
    \/ SpeechOk
    \/ SpeechNoPayload
    \/ SpeechFail
    \/ DecodeOk
    \/ DecodeFail
    \/ \E source \in 1..MaxSources : PlaybackEnded(source)

Spec == Init /\ [][Next]_vars

StartLessonOverlap == StartLessonWithin(MaxOverlap)

NextTopicOverlap == NextTopicWithin(MaxOverlap)

\* Lesson generation and the exercise without the audio pipeline, with at
\* most MaxOverlap generateLesson invocations: the interleavings of
\* overlapping invocations.
NextGenerate ==
    \/ StartLessonOverlap
    \/ \E c \in Calls, lessonData \in Responses : ContentOk(c, lessonData)
    \/ \E c \in Calls, lessonData \in Responses : ContentInvalid(c, lessonData)
    \/ \E c \in Calls : ContentFail(c)
    \/ \E c \in Calls : ImageOk(c)
    \/ \E c \in Calls : ImageFail(c)
    \/ Tick
    \/ \E index \in Blanks, value \in Typed : SetAnswer(index, value)
    \/ Check
    \/ NextTopicOverlap

SpecGenerate == Init /\ [][NextGenerate]_vars

\* ----------------------------------------- specifications of the utilities

\* pcmToWav is about to be called
InitWav ==
    /\ InitApp
    /\ pure \in [fn : {"pcmToWav"}, pcmData : PcmInputs, sampleRate : SampleRates,
                 numChannels : ChannelCounts, bitsPerSample : SampleSizes,
                 result : {<<>>}, done : {FALSE}]

\* one call of pcmToWav; no statement of lines 27-57 writes to pcmData
PcmToWavCall ==
    /\ ~pure.done
    /\ pure' = [pure EXCEPT
                   !.result = pcmToWav(pure.pcmData, pure.sampleRate,
                                       pure.numChannels, pure.bitsPerSample),
                   !.done = TRUE]
    /\ UNCHANGED appVars

NextWav == PcmToWavCall

SpecWav == InitWav /\ [][NextWav]_vars

\* the elements of the shuffled arrays: words, as in line 193
ShuffleItems == {<<"a">>, <<"b">>, <<"c">>}

\* shuffleArray is about to be called
InitShuffle ==
    /\ InitApp
    /\ pure \in [fn : {"shuffleArray"}, array : SeqsUpTo(ShuffleItems, MaxShuffleLen),
                 result : {<<>>}, done : {FALSE}]

\* one call of shuffleArray with some outcome of its Math.random() calls;
\* the swaps are made in the copy of line 68, never in `array`
ShuffleCall ==
    /\ ~pure.done
    /\ \E shuffled \in shuffleArray(pure.array) :
          pure' = [pure EXCEPT !.result = shuffled, !.done = TRUE]
    /\ UNCHANGED appVars

NextShuffle == ShuffleCall

SpecShuffle == InitShuffle /\ [][NextShuffle]_vars

\* lesson.article as the content service may write it: placeholders with a
\* word, with two words and with nothing between the braces, text, and
\* stray braces
ArticleSegments ==
    {<<"{", "{", "a", "}", "}">>, <<"{", "{", "e", " ", "l", "}", "}">>,
     <<"{", "{", "}", "}">>, <<"y", " ">>, <<"{">>, <<"}">>}

RECURSIVE Concatenation(_)
Concatenation(segments) ==
    IF segments = <<>> THEN <<>>
    ELSE Head(segments) \o Concatenation(Tail(segments))

Articles == {Concatenation(segments) : segments \in SeqsUpTo(ArticleSegments, MaxSegments)}

\* renderArticle is about to run for a lesson with this article
InitRender ==
    /\ InitApp
    /\ pure \in [fn : {"renderArticle"}, article : Articles,
                 result : {<<>>}, done : {FALSE}]

\* one run of renderArticle
RenderArticleCall ==
    /\ ~pure.done
    /\ pure' = [pure EXCEPT !.result = RenderArticle(pure.article), !.done = TRUE]
    /\ UNCHANGED appVars

NextRender == RenderArticleCall

SpecRender == InitRender /\ [][NextRender]_vars

\* ------------------------------------------------------------------ claims

AnyInFlight == \E c \in Calls : InFlight(c)

AnyDone == \E c \in Calls : calls[c].pc = "done"

\* the steps in which a generateLesson invocation finishes
Finishing == {"contentInvalid", "contentFail", "imageOk", "imageFail"}

\* C1 (as claimed): when the content response has targetWords absent or
\* empty, the generateLesson invocation ends with the error set, no lesson
\* present and isLoading cleared.
C1_InvalidContentLeavesNoLesson ==
    lastOp = "contentInvalid" =>
        /\ error = GenerateError(InvalidLessonMessage)
        /\ lesson = NoLesson
        /\ ~isLoading

\* C2 (as claimed): every installed lesson has as many target words as its
\* article has placeholder markers.
C2_WordsMatchPlaceholders ==
    lesson # NoLesson =>
        Len(lesson[1].targetWords) = NumPlaceholders(lesson[1].article)

\* C2 (amended): every lesson generateLesson installs, and every lessonData
\* it goes on to request an image for, has targetWords present and not
\* empty; the number of words is not compared with the number of
\* placeholder markers.
C2_InstalledLessonHasWords ==
    /\ lesson # NoLesson =>
        /\ lesson[1].hasTargetWords
        /\ Len(lesson[1].targetWords) >= 1
    /\ \A c \in Calls : calls[c].pc = "image" =>
        /\ calls[c].lessonData[1].hasTargetWords
        /\ Len(calls[c].lessonData[1].targetWords) >= 1

\* an installed lesson whose word count differs from its placeholder count
C2_Witness ==
    /\ lesson # NoLesson
    /\ Len(lesson[1].targetWords) >= 1
    /\ Len(lesson[1].targetWords) # NumPlaceholders(lesson[1].article)

\* C3 (as claimed): while a generateLesson invocation has started and not
\* finished, isLoading is true.
C3_LoadingWhileInFlight == AnyInFlight => isLoading

\* C4: the step that handles a failed image request leaves lesson,
\* userAnswers, isCorrect, shuffledWords and lessonImage as they were.
C4_ImageFailureKeepsLesson ==
    [][lastOp' = "imageFail" =>
        /\ lesson' = lesson
        /\ userAnswers' = userAnswers
        /\ isCorrect' = isCorrect
        /\ shuffledWords' = shuffledWords
        /\ lessonImage' = lessonImage]_vars

\* the image request failed: the lesson and a typed answer are still there
\* and there is no image
C4_Witness ==
    /\ lastOp = "imageFail"
    /\ lesson # NoLesson
    /\ lessonImage = NoImage
    /\ Len(userAnswers) >= 1
    /\ userAnswers[1] \in Typed

\* C5 (as claimed): after a failed image request no error is set.
C5_ImageFailureSetsNoError ==
    lastOp = "imageFail" => error = NoError

\* C6: every finishing generateLesson invocation sets the cooldown to 5;
\* after k ticks since the last one finished the cooldown is 5 - k, a tick
\* is pending exactly while it is positive, so it is 0 after 5 ticks and
\* stays 0.
C6_CooldownCountsDown ==
    /\ lastOp \in Finishing => nextTopicCooldown = CooldownStart
    /\ AnyDone =>
        /\ ticks \in 0..CooldownStart
        /\ nextTopicCooldown = CooldownStart - ticks
    /\ ~AnyDone => nextTopicCooldown = 0
    /\ cooldownTimer = nextTopicCooldown

\* the cooldown has run down from 5 to 0 in 5 ticks
C6_Witness ==
    /\ AnyDone
    /\ ticks = CooldownStart
    /\ nextTopicCooldown = 0
    /\ cooldownTimer = 0

\* every variable but the history variable lastOp
programVars == <<topic, isLoading, error, lesson, lessonImage, userAnswers,
                 isCorrect, showResults, shuffledWords, isAudioLoading,
                 isAudioPlaying, nextTopicCooldown, audioSourceRef,
                 cooldownTimer, calls, listenPc, playing, stopped, ticks>>

\* C7: handleNextTopic takes effect only where a lesson is shown revealed
\* and the cooldown is 0, and then sets the topic to nextTopicSuggestion
\* and starts a generateLesson invocation; a rejected call changes nothing.
C7_NextTopicOnlyWhenRevealedAndCool ==
    [][/\ lastOp' = "nextTopic" =>
            /\ lesson # NoLesson
            /\ showResults
            /\ nextTopicCooldown = 0
            /\ topic' = lesson[1].nextTopicSuggestion
            /\ calls[NextCall].pc = "none"
            /\ calls'[NextCall].pc = "content"
            /\ isLoading'
       /\ lastOp' = "nextTopicRejected" =>
            /\ nextTopicCooldown > 0 \/ lesson[1].nextTopicSuggestion = ""
            /\ UNCHANGED programVars]_vars

\* handleNextTopic has taken effect
C7_Witness ==
    /\ lastOp = "nextTopic"
    /\ topic = LessonWellFormed.nextTopicSuggestion
    /\ AnyInFlight
    /\ lesson = NoLesson

\* the 0-based indexes of two arrays
Indexes(a, b) == 0..(Max(Len(a), Len(b)) - 1)

\* C8: handleAnswerChange(index, value) changes nothing when showResults
\* is true; otherwise userAnswers[index] becomes value and every other
\* entry reads as before; isCorrect, showResults, shuffledWords and the
\* lesson are unchanged either way.
C8_SetAnswerFrame ==
    [][lastOp' = "setAnswer" =>
        /\ UNCHANGED <<isCorrect, showResults, shuffledWords, lesson>>
        /\ IF showResults
           THEN UNCHANGED programVars
           ELSE \E index \in Blanks, value \in Typed :
                    /\ ArrayGet(userAnswers', index) = value
                    /\ \A j \in Indexes(userAnswers, userAnswers') \ {index} :
                           ArrayGet(userAnswers', j) = ArrayGet(userAnswers, j)]_vars

\* an answer typed before the check is still there after an edit attempted
\* on the revealed lesson
C8_Witness ==
    /\ lastOp = "setAnswer"
    /\ showResults
    /\ lesson # NoLesson
    /\ \E i \in 1..Len(userAnswers) : userAnswers[i] \in Typed
    /\ \E i \in 1..Len(userAnswers) : userAnswers[i] = <<>>

\* C9 (as claimed): handleCheckAnswers never fails, and it leaves
\* showResults true and isCorrect with one entry per target word,
\* isCorrect[i] being whether userAnswers[i] equals targetWords[i] after
\* trimming and lower-casing.
C9_CheckScoresEveryWord ==
    /\ lastOp # "checkThrew"
    /\ lastOp = "check" =>
        /\ showResults
        /\ Len(isCorrect) = Len(lesson[1].targetWords)
        /\ \A i \in 1..Len(isCorrect) :
               isCorrect[i] = AnswerMatches(userAnswers[i], lesson[1].targetWords[i])

\* the steps of setAnswer, check, listen and the cooldown tick
ExerciseSteps == {"setAnswer", "check", "checkThrew", "tick", "listen",
                  "listenRejected", "speechOk", "speechNoPayload", "speechFail",
                  "decodeOk", "decodeFail", "ended"}

\* C10: once showResults is true, the steps of setAnswer, check, listen
\* and the cooldown tick leave showResults true and userAnswers and
\* isCorrect as they were.
C10_RevealIsFrozen ==
    [][(showResults /\ lastOp' \in ExerciseSteps) =>
        /\ showResults'
        /\ userAnswers' = userAnswers
        /\ isCorrect' = isCorrect]_vars

\* a revealed lesson with a correct answer, after a cooldown tick and
\* during playback
C10_Witness ==
    /\ showResults
    /\ lastOp = "tick"
    /\ isAudioPlaying
    /\ \E i \in 1..Len(isCorrect) : isCorrect[i] = TRUE

\* ------------------------------------------------------------ audio claims

\* C11: at most one source is started and not ended at any time, and the
\* source a listen starts is the only one playing.
C11_AtMostOnePlaying ==
    /\ Cardinality(playing) <= 1
    /\ lastOp = "decodeOk" => playing = {audioSourceRef}

\* a source starts for a lesson that a new generateLesson has already cleared
C11_Witness ==
    /\ lastOp = "decodeOk"
    /\ playing = {audioSourceRef}
    /\ lesson = NoLesson

audioVars == <<isAudioLoading, isAudioPlaying, audioSourceRef, error, listenPc,
               playing, stopped>>

\* C12: a listen made while a request is pending or a source is playing sends
\* no request and leaves the loading flag, the playing flag, the recorded
\* source and the error as they were; no listen is accepted in those states.
C12_RejectedListenIsNoOp ==
    [][/\ lastOp' = "listenRejected" =>
            /\ isAudioLoading \/ isAudioPlaying
            /\ UNCHANGED audioVars
       /\ lastOp' = "listen" => ~isAudioLoading /\ ~isAudioPlaying]_vars

C12_Witness ==
    /\ lastOp = "listenRejected"
    /\ isAudioPlaying
    /\ playing # {}

ListenFailures == {"speechNoPayload", "speechFail", "decodeFail"}

\* C13: after a failed listen (request rejected, no audio data, decoding
\* rejected) an error is shown, the loading and playing flags are false, no
\* source is recorded, and a further listen would be accepted.
C13_FailedListenRecovers ==
    lastOp \in ListenFailures =>
        /\ error # NoError
        /\ ~isAudioLoading
        /\ ~isAudioPlaying
        /\ audioSourceRef = 0
        /\ lesson # NoLesson => ~ListenRejected

C13_Witness ==
    /\ lastOp = "decodeFail"
    /\ lesson # NoLesson
    /\ ~ListenRejected

\* ------------------------------------------------------------ error claims

IsGenerateForm(e) ==
    /\ Len(e) = 3
    /\ e[1] = "An error occurred: "
    /\ e[3] = ". Please try again."

IsAudioForm(e) ==
    /\ Len(e) = 2
    /\ e[1] = "Failed to play audio: "

GenerateFailures == {"contentInvalid", "contentFail", "imageFail"}

\* C14 as stated: every error shown has the form
\* 'An error occurred: {detail}. Please try again.'
C14_ErrorsShareOneForm == error # NoError => IsGenerateForm(error)

\* C14: an error shown after a failed generateLesson has the form
\* 'An error occurred: {detail}. Please try again.', an error shown after a
\* failed listen has the form 'Failed to play audio: {detail}', and no error
\* of any other form is shown.
C14_ErrorFormByOrigin ==
    /\ error # NoError => IsGenerateForm(error) \/ IsAudioForm(error)
    /\ lastOp \in GenerateFailures => IsGenerateForm(error)
    /\ lastOp \in ListenFailures => IsAudioForm(error)

C14_Witness ==
    /\ lastOp = "speechFail"
    /\ IsAudioForm(error)
    /\ ~IsGenerateForm(error)

\* ------------------------------------------------------------ encoder claims

\* the unsigned 32-bit integer stored least significant byte first at a
\* byte offset
ReadUint32LE(bytes, byteOffset) ==
    bytes[byteOffset + 1] + 256 * bytes[byteOffset + 2]
        + 65536 * bytes[byteOffset + 3] + 16777216 * bytes[byteOffset + 4]

BytesAt(bytes, byteOffset, n) == [i \in 1..n |-> bytes[byteOffset + i]]

\* C15: the result has 44 + L bytes; bytes 0-3, 8-11, 12-15 and 36-39 are
\* 'RIFF', 'WAVE', 'fmt ' and 'data'; bytes 4-7 hold 36 + L and bytes
\* 40-43 hold L, little-endian; the bytes from 44 on are the input; the
\* call leaves the input as it was.
C15_WavLayout ==
    /\ [](pure.done =>
            LET wav == pure.result
                L == Len(pure.pcmData)
            IN  /\ Len(wav) = 44 + L
                /\ \A i \in 1..Len(wav) : wav[i] \in 0..255
                /\ BytesAt(wav, 0, 4) = <<82, 73, 70, 70>>
                /\ BytesAt(wav, 8, 4) = <<87, 65, 86, 69>>
                /\ BytesAt(wav, 12, 4) = <<102, 109, 116, 32>>
                /\ BytesAt(wav, 36, 4) = <<100, 97, 116, 97>>
                /\ ReadUint32LE(wav, 4) = 36 + L
                /\ ReadUint32LE(wav, 40) = L
                /\ BytesAt(wav, 44, L) = pure.pcmData)
    /\ [][pure'.pcmData = pure.pcmData]_vars

\* an input longer than 255 bytes has been encoded
C15_Witness ==
    /\ pure.done
    /\ Len(pure.pcmData) > 255
    /\ pure.result[42] # 0

\* ------------------------------------------------------------ shuffle claims

Occurrences(a, x) == Cardinality({i \in 1..Len(a) : a[i] = x})

SameMultiset(a, b) ==
    /\ Len(a) = Len(b)
    /\ \A i \in 1..Len(a) : Occurrences(a, a[i]) = Occurrences(b, a[i])

Bijections(n) ==
    {f \in [1..n -> 1..n] : \A i, j \in 1..n : f[i] = f[j] => i = j}

Rearrangements(a) == {[i \in 1..Len(a) |-> a[f[i]]] : f \in Bijections(Len(a))}

\* C16: the result of shuffleArray has the length and the elements of the
\* input, with the same multiplicities; every permutation of the input is a
\* possible result; the call leaves the input as it was.
C16_ShuffleIsAnyPermutation ==
    /\ [](pure.done => SameMultiset(pure.result, pure.array))
    /\ [](Rearrangements(pure.array) \subseteq shuffleArray(pure.array))
    /\ [][pure'.array = pure.array]_vars

\* three distinct words have come back in reverse order
C16_Witness ==
    /\ pure.done
    /\ Len(pure.array) = 3
    /\ Cardinality({pure.array[i] : i \in 1..3}) = 3
    /\ pure.result = <<pure.array[3], pure.array[2], pure.array[1]>>

\* ------------------------------------------------------------ lesson claims

\* C17: while a lesson is shown userAnswers has one entry per target word;
\* right after the lesson is installed every entry is empty.
C17_AnswersAlignedWithWords ==
    /\ lesson # NoLesson => Len(userAnswers) = Len(lesson[1].targetWords)
    /\ lastOp = "contentOk" => \A i \in 1..Len(userAnswers) : userAnswers[i] = <<>>

IsRearrangement(a, b) == SameMultiset(a, b)

\* C18: while a lesson is shown the word bank is a rearrangement of its
\* target words, and only the installation of a lesson changes the word bank.
C18_WordBankIsStablePermutation ==
    /\ [](lesson # NoLesson => IsRearrangement(shuffledWords, lesson[1].targetWords))
    /\ [][lastOp' # "contentOk" => shuffledWords' = shuffledWords]_vars

\* the two words are shown in the other order and the lesson has since been
\* typed into, checked and listened to
C18_Witness ==
    /\ lesson # NoLesson
    /\ Len(shuffledWords) = 2
    /\ shuffledWords # lesson[1].targetWords
    /\ showResults
    /\ isAudioPlaying
    /\ lessonImage # NoImage
    /\ nextTopicCooldown < CooldownStart

\* C19: no tick is pending while the cooldown is 0, and when a generateLesson
\* finishes while a tick is pending the cooldown effect runs again, which
\* clears that tick before a new one is scheduled.
C19_NewStartSupersedesTick ==
    /\ [](nextTopicCooldown = 0 => cooldownTimer = 0)
    /\ [][lastOp' \in Finishing /\ cooldownTimer > 0 =>
            EffectReruns(nextTopicCooldown, nextTopicCooldown')]_vars

\* ------------------------------------------------------------ render claims

\* C20: the Kth placeholder marker of the article, from the left, is
\* rendered as the input bound to index K - 1, and no text between the
\* markers is rendered as an input.  The markers are the even parts of the
\* split, the text segments the odd ones.
C20_PlaceholdersBindByPosition ==
    pure.done =>
        \A i \in 1..Len(pure.result) :
            IF i % 2 = 0
            THEN /\ pure.result[i].kind = "input"
                 /\ pure.result[i].currentIndex = (i \div 2) - 1
            ELSE pure.result[i].kind # "input"

\* ------------------------------------------------------------ image claims

\* C21 as stated: an image is shown only with a lesson, and it is the image
\* requested from the title of the lesson shown.
C21_ImageBelongsToLesson ==
    lessonImage # NoImage =>
        /\ lesson # NoLesson
        /\ lessonImage = <<lesson[1].title>>

Starting == {"start", "nextTopic"}

\* C21: every start of generateLesson leaves no lesson and no image shown,
\* and the image shown changes only there and when an image response
\* arrives, which shows the image requested from the title of the lesson
\* that the responding call installed.
C21_ImageIsLatestResponse ==
    /\ [](lastOp \in Starting => lesson = NoLesson /\ lessonImage = NoImage)
    /\ [][lessonImage' # lessonImage =>
            \/ lastOp' \in Starting /\ lessonImage' = NoImage
            \/ /\ lastOp' = "imageOk"
               /\ \E c \in Calls :
                     /\ calls[c].pc = "image"
                     /\ calls'[c] = Done
                     /\ lessonImage' = <<calls[c].lessonData[1].title>>]_vars

\* the image response of an earlier call has arrived while the lesson of
\* another call is shown
C21_Witness ==
    /\ lastOp = "imageOk"
    /\ lesson # NoLesson
    /\ lessonImage # NoImage
    /\ lessonImage # <<lesson[1].title>>

====
